---- MODULE Spec2Model ----
(***************************************************************************)
(* Two-pole low-pass modulation effect of the logue SDK                    *)
(* (platform/minilogue-xd/proj/modfx/twopole_lowpass/twopole_lowpass.cpp). *)
(*                                                                         *)
(* The effect owns four dsp::BiQuad filters (main left/right, sub          *)
(* left/right), two stored parameters (s_wc, s_q) and a dirty flag         *)
(* (s_param_changed).  The host calls MODFX_INIT, MODFX_PARAM and          *)
(* MODFX_PROCESS, one call at a time.  Every action below is one whole     *)
(* call.                                                                   *)
(*                                                                         *)
(* A C float is modelled as a binary floating-point number with a          *)
(* MantBits-bit mantissa and an unbounded exponent: [m |-> mantissa,       *)
(* e |-> exponent] stands for m * 2^e, normalised so that                  *)
(* 2^(MantBits-1) <= |m| < 2^MantBits, or m = 0 and e = 0.  Results are    *)
(* truncated towards zero.  Two floats are equal iff their records are.    *)
(***************************************************************************)
EXTENDS Integers, Sequences, FiniteSets, TLC

(***************************************************************************)
(* Bounds of the model.                                                    *)
(***************************************************************************)
\* mantissa width of the modelled float
MantBits == 12
\* largest frame count the host passes to MODFX_PROCESS
MaxFrames == 2
\* number of calls of the host explored
MaxCalls == 4

\* blocks entered line by line
MaxOverlapBlocks == 2

(***************************************************************************)
(* float arithmetic                                                        *)
(***************************************************************************)
Pow2(n) == 2^n

Abs(n) == IF n < 0 THEN -n ELSE n

Sgn(n) == IF n < 0 THEN -1 ELSE 1

\* n / d, truncated towards zero
Quot(n, d) == IF n < 0 THEN -((-n) \div d) ELSE n \div d

Zero == [m |-> 0, e |-> 0]

\* the bounds of a normalised mantissa
MantMin == Pow2(MantBits - 1)

MantMax == Pow2(MantBits)

RECURSIVE Norm(_, _)
Norm(m, e) ==
  IF m = 0 THEN Zero
  ELSE IF m >= MantMax \/ -m >= MantMax THEN Norm(Quot(m, 2), e + 1)
  ELSE IF m < MantMin /\ -m < MantMin THEN Norm(m * 2, e - 1)
  ELSE [m |-> m, e |-> e]

\* the product of two normalised mantissas has 2 * MantBits - 1 bits or one more
FMul(a, b) ==
  IF a.m = 0 \/ b.m = 0 THEN Zero
  ELSE Norm(Quot(a.m * b.m, MantMin), a.e + b.e + MantBits - 1)

\* the operand of the smaller exponent is shifted right; one guard bit is kept
FAdd(a, b) ==
  IF a.m = 0 THEN b
  ELSE IF b.m = 0 THEN a
  ELSE IF a.e >= b.e
       THEN IF a.e - b.e > MantBits + 1 THEN a
            ELSE Norm(a.m * 2 + Quot(b.m * 2, Pow2(a.e - b.e)), a.e - 1)
       ELSE IF b.e - a.e > MantBits + 1 THEN b
            ELSE Norm(Quot(a.m * 2, Pow2(b.e - a.e)) + b.m * 2, b.e - 1)

FNeg(a) == [m |-> -a.m, e |-> a.e]

FSub(a, b) == FAdd(a, FNeg(b))

FDiv(a, b) ==
  Norm(Sgn(a.m) * Sgn(b.m) * ((Abs(a.m) * MantMax) \div Abs(b.m)),
       a.e - b.e - MantBits)

\* the float nearest (towards zero) to the integer n
FInt(n) == Norm(n, 0)

\* a decimal literal num/den of the source, as a float
FLit(num, den) == FDiv(FInt(num), FInt(den))

\* a < b
FLess(a, b) == FSub(a, b).m < 0

(***************************************************************************)
(* Library functions the effect calls (float_math.h, fx_api.h, biquad.hpp) *)
(***************************************************************************)
\* q31_to_f32: value * 2^-31; INT32_MIN is -1.0
q31_to_f32(value) ==
  IF value = -2147483647 - 1 THEN FNeg(FInt(1)) ELSE Norm(value, -31)

\* fasterpow2f: 2^p, the mantissa interpolated linearly between powers of two
fasterpow2f(p) ==
  IF p.m = 0 THEN FInt(1)
  ELSE IF p.e >= 0 THEN Norm(1, p.m * Pow2(p.e))
  ELSE LET d == -p.e IN
       IF d > 2 * MantBits THEN FInt(1)
       ELSE LET n == p.m \div Pow2(d)
                r == p.m % Pow2(d)
                frac == IF d >= MantBits - 1
                        THEN r \div Pow2(d - (MantBits - 1))
                        ELSE r * Pow2(MantBits - 1 - d)
            IN  [m |-> Pow2(MantBits - 1) + frac, e |-> n - (MantBits - 1)]

\* fx_tanpif: tan(pi * x) for x in (0, 0.5):
\* pi * x * (1 - a * x^2) / (1 - 4 * x^2) with a = 4 - 32 / pi^2
fx_tanpif(x) ==
  LET x2 == FMul(x, x)
      num == FMul(FMul(FLit(31416, 10000), x),
                  FSub(FInt(1), FMul(FLit(7577, 10000), x2)))
      den == FSub(FInt(1), FMul(FInt(4), x2))
  IN  FDiv(num, den)

\* dsp::BiQuad::Coeffs::setSOLP(k, q): second-order low pass
setSOLP(k, q) ==
  LET qk2 == FMul(FMul(q, k), k)
      qk2_k_q_r == FDiv(FInt(1), FAdd(FAdd(qk2, k), q))
      ff0 == FMul(qk2, qk2_k_q_r)
  IN  [ff0 |-> ff0,
       ff1 |-> FMul(FInt(2), ff0),
       ff2 |-> ff0,
       fb1 |-> FMul(FMul(FInt(2), FSub(qk2, q)), qk2_k_q_r),
       fb2 |-> FMul(FAdd(FSub(qk2, k), q), qk2_k_q_r)]

\* dsp::BiQuad(): a filter as constructed, all coefficients and registers 0
BiQuad ==
  [mCoeffs |-> [ff0 |-> Zero, ff1 |-> Zero, ff2 |-> Zero,
                fb1 |-> Zero, fb2 |-> Zero],
   mZ1 |-> Zero, mZ2 |-> Zero]

\* dsp::BiQuad::flush()
flush(bq) == [bq EXCEPT !.mZ1 = Zero, !.mZ2 = Zero]

\* process_so with Z2 := f_2*x_k - b_2, the factor y_k forgotten
process_so_lostFactor(bq, xn) ==
  LET c == bq.mCoeffs
      acc == FAdd(FMul(c.ff0, xn), bq.mZ1)
      z1 == FSub(FAdd(FMul(c.ff1, xn), bq.mZ2), FMul(c.fb1, acc))
      z2 == FSub(FMul(c.ff2, xn), c.fb2)
  IN  [bq |-> [bq EXCEPT !.mZ1 = z1, !.mZ2 = z2], y |-> acc]

\* dsp::BiQuad::process_so(xn): the filter after the sample, and y_k
process_so(bq, xn) ==
  LET c == bq.mCoeffs
      acc == FAdd(FMul(c.ff0, xn), bq.mZ1)
      z1 == FSub(FAdd(FMul(c.ff1, xn), bq.mZ2), FMul(c.fb1, acc))
      z2 == FSub(FMul(c.ff2, xn), FMul(c.fb2, acc))
  IN  [bq |-> [bq EXCEPT !.mZ1 = z1, !.mZ2 = z2], y |-> acc]

(***************************************************************************)
(* Program constants                                                       *)
(***************************************************************************)
\* parameter indices of usermodfx.h, as the switch of MODFX_PARAM names them
k_user_modfx_param_time == 0

k_user_modfx_param_depth == 1

\* M_1_SQRT2
M_1_SQRT2 == FLit(7071, 10000)

(***************************************************************************)
(* What the host passes                                                    *)
(***************************************************************************)
\* uint8_t index: the two recognised indices and an unrecognised one
ParamIndices == {k_user_modfx_param_time, k_user_modfx_param_depth, 255}

\* int32_t value (q31): 0 and 0.5
ParamValues == {0, 1073741824}

\* int32_t value: the ends of the range, the values next to 0, and +-0.5
EdgeValues ==
  {-2147483647 - 1, -1073741824, -1, 0, 1, 1073741824, 2147483647}

\* the interleaved stereo input buffers of a block of the given frame count:
\* silence, and a ramp whose samples all differ
Silence(frames) == [i \in 1..2 * frames |-> Zero]

Ramp(frames) == [i \in 1..2 * frames |-> FInt(i)]

InputBuffers(frames) == {Silence(frames), Ramp(frames)}

(***************************************************************************)
(* State                                                                   *)
(***************************************************************************)
VARIABLES
  s_bq_l, s_bq_r,       \* main left / right filter
  s_bqs_l, s_bqs_r,     \* sub left / right filter
  s_param_changed,      \* dirty flag
  s_wc,                 \* stored cutoff (fraction of the sample rate)
  s_q,                  \* stored resonance
  call,                 \* the last call of the host and its scalar arguments
  main_xn, sub_xn,      \* input buffers of the last MODFX_PROCESS call
  main_yn, sub_yn,      \* output buffers of the last MODFX_PROCESS call
  probe,                \* what the last MODFX_PROCESS call did, step by step
  ncalls,               \* calls of the host so far
  pc                    \* a MODFX_PROCESS call under way: the line it is at,
                        \* its local param_changed, its arguments

vars ==
  <<s_bq_l, s_bq_r, s_bqs_l, s_bqs_r, s_param_changed, s_wc, s_q,
    call, main_xn, sub_xn, main_yn, sub_yn, probe, ncalls, pc>>

filters == <<s_bq_l, s_bq_r, s_bqs_l, s_bqs_r>>

NoCall == [op |-> "load", index |-> 0, value |-> 0, frames |-> 0]

NoProbe ==
  [recomputed |-> FALSE, assigned |-> <<>>, used |-> <<>>,
   reads_main |-> <<>>, reads_sub |-> <<>>,
   writes_main |-> <<>>, writes_sub |-> <<>>]

\* no MODFX_PROCESS call is under way; blocks counts the calls that were
\* entered line by line
Idle(blocks) ==
  [at |-> "idle", param_changed |-> 0, frames |-> 0,
   mxn |-> <<>>, sxn |-> <<>>, blocks |-> blocks]

\* the statics as the loader leaves them (zero-initialised, filters constructed)
Init ==
  /\ s_bq_l = BiQuad /\ s_bq_r = BiQuad
  /\ s_bqs_l = BiQuad /\ s_bqs_r = BiQuad
  /\ s_param_changed = 0
  /\ s_wc = Zero
  /\ s_q = Zero
  /\ call = NoCall
  /\ main_xn = <<>> /\ sub_xn = <<>>
  /\ main_yn = <<>> /\ sub_yn = <<>>
  /\ probe = NoProbe
  /\ ncalls = 0
  /\ pc = Idle(0)

\* a call that passes no buffers returns to the host
Returns(c) ==
  /\ call' = c
  /\ main_xn' = <<>> /\ sub_xn' = <<>>
  /\ main_yn' = <<>> /\ sub_yn' = <<>>
  /\ probe' = NoProbe
  /\ ncalls' = ncalls + 1
  /\ pc' = pc

(***************************************************************************)
(* MODFX_INIT                                                              *)
(***************************************************************************)
\* the defaults of lines 48 and 49
DefaultWc == FLit(49, 100)

DefaultQ == FLit(14142, 10000)

\* MODFX_INIT without line 47: a pending change survives the initialization
MODFX_INIT_keepsFlag ==
  LET wc == DefaultWc
      q == DefaultQ
      l == [flush(s_bq_l) EXCEPT !.mCoeffs = setSOLP(fx_tanpif(wc), q)]
  IN  /\ ncalls < MaxCalls
      /\ UNCHANGED s_param_changed
      /\ s_wc' = wc
      /\ s_q' = q
      /\ s_bq_l' = l
      /\ s_bq_r' = [flush(s_bq_r) EXCEPT !.mCoeffs = l.mCoeffs]
      /\ s_bqs_r' = [flush(s_bqs_r) EXCEPT !.mCoeffs = l.mCoeffs]
      /\ s_bqs_l' = [flush(s_bqs_l) EXCEPT !.mCoeffs = l.mCoeffs]
      /\ Returns([NoCall EXCEPT !.op = "init"])

\* MODFX_INIT without lines 54..58: the filters are flushed and the defaults
\* stored, the coefficients left as constructed
MODFX_INIT_noCoeffs ==
  LET wc == DefaultWc
      q == DefaultQ
  IN  /\ ncalls < MaxCalls
      /\ s_param_changed' = 0
      /\ s_wc' = wc
      /\ s_q' = q
      /\ s_bq_l' = flush(s_bq_l)
      /\ s_bq_r' = flush(s_bq_r)
      /\ s_bqs_r' = flush(s_bqs_r)
      /\ s_bqs_l' = flush(s_bqs_l)
      /\ Returns([NoCall EXCEPT !.op = "init"])

MODFX_INIT ==
  LET wc == DefaultWc
      q == DefaultQ
      l == [flush(s_bq_l) EXCEPT !.mCoeffs = setSOLP(fx_tanpif(wc), q)]
  IN  /\ ncalls < MaxCalls
      /\ s_param_changed' = 0
      /\ s_wc' = wc
      /\ s_q' = q
      /\ s_bq_l' = l
      /\ s_bq_r' = [flush(s_bq_r) EXCEPT !.mCoeffs = l.mCoeffs]
      /\ s_bqs_r' = [flush(s_bqs_r) EXCEPT !.mCoeffs = l.mCoeffs]
      /\ s_bqs_l' = [flush(s_bqs_l) EXCEPT !.mCoeffs = l.mCoeffs]
      /\ Returns([NoCall EXCEPT !.op = "init"])

(***************************************************************************)
(* MODFX_PARAM                                                             *)
(***************************************************************************)
\* line 101 with the factor 0.01f instead of 0.001f
CutoffOf_tenfold(valf) ==
  FMul(FLit(1, 100), fasterpow2f(FMul(valf, FLit(89456, 10000))))

\* line 101: the cutoff the time knob maps to
CutoffOf(valf) ==
  FMul(FLit(1, 1000), fasterpow2f(FMul(valf, FLit(89456, 10000))))

\* line 109: the resonance the depth knob maps to
ResonanceOf(valf) == FMul(fasterpow2f(FMul(valf, FInt(4))), M_1_SQRT2)

\* the switch with the depth case leaving the flag alone
ParamSwitch_depthNotDirty(index, valf) ==
  IF index = k_user_modfx_param_time
  THEN [s_wc |-> CutoffOf(valf), s_q |-> s_q, s_param_changed |-> 1]
  ELSE IF index = k_user_modfx_param_depth
  THEN [s_wc |-> s_wc, s_q |-> ResonanceOf(valf),
        s_param_changed |-> s_param_changed]
  ELSE [s_wc |-> s_wc, s_q |-> s_q, s_param_changed |-> s_param_changed]

\* the switch with the flag set after it, whatever the index
ParamSwitch_alwaysDirty(index, valf) ==
  IF index = k_user_modfx_param_time
  THEN [s_wc |-> CutoffOf(valf), s_q |-> s_q, s_param_changed |-> 1]
  ELSE IF index = k_user_modfx_param_depth
  THEN [s_wc |-> s_wc, s_q |-> ResonanceOf(valf), s_param_changed |-> 1]
  ELSE [s_wc |-> s_wc, s_q |-> s_q, s_param_changed |-> 1]

\* the switch with the time case leaving the flag alone
ParamSwitch_cutoffNotDirty(index, valf) ==
  IF index = k_user_modfx_param_time
  THEN [s_wc |-> CutoffOf(valf), s_q |-> s_q,
        s_param_changed |-> s_param_changed]
  ELSE IF index = k_user_modfx_param_depth
  THEN [s_wc |-> s_wc, s_q |-> ResonanceOf(valf), s_param_changed |-> 1]
  ELSE [s_wc |-> s_wc, s_q |-> s_q, s_param_changed |-> s_param_changed]

\* the stored parameters and the flag after the switch of lines 94..114
ParamSwitch(index, valf) ==
  IF index = k_user_modfx_param_time
  THEN [s_wc |-> CutoffOf(valf), s_q |-> s_q, s_param_changed |-> 1]
  ELSE IF index = k_user_modfx_param_depth
  THEN [s_wc |-> s_wc, s_q |-> ResonanceOf(valf), s_param_changed |-> 1]
  ELSE [s_wc |-> s_wc, s_q |-> s_q, s_param_changed |-> s_param_changed]

\* MODFX_PARAM with the filters flushed on every recognised change
MODFX_PARAM_flush(index, value) ==
  LET valf == q31_to_f32(value)
      r == ParamSwitch(index, valf)
  IN  /\ call.op # "load"
      /\ ncalls < MaxCalls
      /\ s_wc' = r.s_wc
      /\ s_q' = r.s_q
      /\ s_param_changed' = r.s_param_changed
      /\ s_bq_l' = IF r.s_param_changed = 1 THEN flush(s_bq_l) ELSE s_bq_l
      /\ s_bq_r' = IF r.s_param_changed = 1 THEN flush(s_bq_r) ELSE s_bq_r
      /\ s_bqs_l' = IF r.s_param_changed = 1 THEN flush(s_bqs_l) ELSE s_bqs_l
      /\ s_bqs_r' = IF r.s_param_changed = 1 THEN flush(s_bqs_r) ELSE s_bqs_r
      /\ Returns([NoCall EXCEPT !.op = "param", !.index = index,
                                !.value = value])

MODFX_PARAM(index, value) ==
  LET valf == q31_to_f32(value)
      r == ParamSwitch(index, valf)
  IN  /\ call.op # "load"
      /\ ncalls < MaxCalls
      /\ s_wc' = r.s_wc
      /\ s_q' = r.s_q
      /\ s_param_changed' = r.s_param_changed
      /\ UNCHANGED <<s_bq_l, s_bq_r, s_bqs_l, s_bqs_r>>
      /\ Returns([NoCall EXCEPT !.op = "param", !.index = index,
                                !.value = value])

(***************************************************************************)
(* MODFX_PROCESS                                                           *)
(***************************************************************************)
\* the update without line 78: the sub right filter keeps its coefficients
UpdateCoeffs_subRightStale(fx) ==
  IF fx.s_param_changed # 0
  THEN LET c == setSOLP(fx_tanpif(fx.s_wc), fx.s_q)
       IN  [fx EXCEPT !.s_bq_l.mCoeffs = c,
                      !.s_bq_r.mCoeffs = c,
                      !.s_bqs_l.mCoeffs = c,
                      !.s_param_changed = 0]
  ELSE fx

\* the update assigning whole filters built afresh, so the registers restart
UpdateCoeffs_flushes(fx) ==
  IF fx.s_param_changed # 0
  THEN LET f == [BiQuad EXCEPT !.mCoeffs = setSOLP(fx_tanpif(fx.s_wc), fx.s_q)]
       IN  [fx EXCEPT !.s_bq_l = f, !.s_bq_r = f,
                      !.s_bqs_l = f, !.s_bqs_r = f,
                      !.s_param_changed = 0]
  ELSE fx

\* the update computing from the stored cutoff only, the resonance left at
\* its default
UpdateCoeffs_ignoresQ(fx) ==
  IF fx.s_param_changed # 0
  THEN LET c == setSOLP(fx_tanpif(fx.s_wc), FLit(14142, 10000))
       IN  [fx EXCEPT !.s_bq_l.mCoeffs = c,
                      !.s_bq_r.mCoeffs = c,
                      !.s_bqs_l.mCoeffs = c,
                      !.s_bqs_r.mCoeffs = c,
                      !.s_param_changed = 0]
  ELSE fx

\* lines 72..80: the filters and the flag after the coefficient update
UpdateCoeffs(fx) ==
  IF fx.s_param_changed # 0
  THEN LET c == setSOLP(fx_tanpif(fx.s_wc), fx.s_q)
       IN  [fx EXCEPT !.s_bq_l.mCoeffs = c,
                      !.s_bq_r.mCoeffs = c,
                      !.s_bqs_l.mCoeffs = c,
                      !.s_bqs_r.mCoeffs = c,
                      !.s_param_changed = 0]
  ELSE fx

\* the loop with line 84 calling s_bq_l again instead of s_bq_r
LoopBody_leftTwice(it) ==
  LET ml == process_so(it.s_bq_l, it.main_xn[it.mx + 1])
      mr == process_so(ml.bq, it.main_xn[it.mx + 2])
      sl == process_so(it.s_bqs_l, it.sub_xn[it.sx + 1])
      sr == process_so(it.s_bqs_r, it.sub_xn[it.sx + 2])
  IN  [it EXCEPT
         !.s_bq_l = mr.bq,
         !.s_bqs_l = sl.bq, !.s_bqs_r = sr.bq,
         !.main_yn = [@ EXCEPT ![it.my + 1] = ml.y, ![it.my + 2] = mr.y],
         !.sub_yn = [@ EXCEPT ![it.sy + 1] = sl.y, ![it.sy + 2] = sr.y],
         !.my = @ + 2, !.mx = @ + 2, !.sy = @ + 2, !.sx = @ + 2,
         !.reads_main = @ \o <<it.mx, it.mx + 1>>,
         !.reads_sub = @ \o <<it.sx, it.sx + 1>>,
         !.writes_main = @ \o <<it.my, it.my + 1>>,
         !.writes_sub = @ \o <<it.sy, it.sy + 1>>,
         !.used = @ \o <<it.s_bq_l.mCoeffs, ml.bq.mCoeffs,
                         it.s_bqs_l.mCoeffs, it.s_bqs_r.mCoeffs>>]

\* the loop with line 85 calling s_bq_l instead of s_bqs_l: the main left
\* filter also filters the sub left samples
LoopBody_subThroughMain(it) ==
  LET ml == process_so(it.s_bq_l, it.main_xn[it.mx + 1])
      mr == process_so(it.s_bq_r, it.main_xn[it.mx + 2])
      sl == process_so(ml.bq, it.sub_xn[it.sx + 1])
      sr == process_so(it.s_bqs_r, it.sub_xn[it.sx + 2])
  IN  [it EXCEPT
         !.s_bq_l = sl.bq, !.s_bq_r = mr.bq,
         !.s_bqs_r = sr.bq,
         !.main_yn = [@ EXCEPT ![it.my + 1] = ml.y, ![it.my + 2] = mr.y],
         !.sub_yn = [@ EXCEPT ![it.sy + 1] = sl.y, ![it.sy + 2] = sr.y],
         !.my = @ + 2, !.mx = @ + 2, !.sy = @ + 2, !.sx = @ + 2,
         !.reads_main = @ \o <<it.mx, it.mx + 1>>,
         !.reads_sub = @ \o <<it.sx, it.sx + 1>>,
         !.writes_main = @ \o <<it.my, it.my + 1>>,
         !.writes_sub = @ \o <<it.sy, it.sy + 1>>,
         !.used = @ \o <<it.s_bq_l.mCoeffs, it.s_bq_r.mCoeffs,
                         ml.bq.mCoeffs, it.s_bqs_r.mCoeffs>>]

\* lines 83..86: one pass of the loop.  it.my, it.mx, it.sy, it.sx are the
\* pointers as offsets from the start of their buffers; the buffers are
\* sequences, so offset i is element i + 1.
LoopBody(it) ==
  LET ml == process_so(it.s_bq_l, it.main_xn[it.mx + 1])
      mr == process_so(it.s_bq_r, it.main_xn[it.mx + 2])
      sl == process_so(it.s_bqs_l, it.sub_xn[it.sx + 1])
      sr == process_so(it.s_bqs_r, it.sub_xn[it.sx + 2])
  IN  [it EXCEPT
         !.s_bq_l = ml.bq, !.s_bq_r = mr.bq,
         !.s_bqs_l = sl.bq, !.s_bqs_r = sr.bq,
         !.main_yn = [@ EXCEPT ![it.my + 1] = ml.y, ![it.my + 2] = mr.y],
         !.sub_yn = [@ EXCEPT ![it.sy + 1] = sl.y, ![it.sy + 2] = sr.y],
         !.my = @ + 2, !.mx = @ + 2, !.sy = @ + 2, !.sx = @ + 2,
         !.reads_main = @ \o <<it.mx, it.mx + 1>>,
         !.reads_sub = @ \o <<it.sx, it.sx + 1>>,
         !.writes_main = @ \o <<it.my, it.my + 1>>,
         !.writes_sub = @ \o <<it.sy, it.sy + 1>>,
         !.used = @ \o <<it.s_bq_l.mCoeffs, it.s_bq_r.mCoeffs,
                         it.s_bqs_l.mCoeffs, it.s_bqs_r.mCoeffs>>]

\* line 82: for (; my != my_e; )
RECURSIVE ProcessLoop(_, _)
ProcessLoop(it, my_e) ==
  IF it.my # my_e THEN ProcessLoop(LoopBody(it), my_e) ELSE it

\* the host's output buffers before the call: their content is not read
Unwritten(frames) == [i \in 1..2 * frames |-> Zero]

\* the loop's variables at line 82, before the first pass
LoopEntry(fx, mxn, sxn, frames) ==
  [s_bq_l |-> fx.s_bq_l, s_bq_r |-> fx.s_bq_r,
   s_bqs_l |-> fx.s_bqs_l, s_bqs_r |-> fx.s_bqs_r,
   main_xn |-> mxn, sub_xn |-> sxn,
   main_yn |-> Unwritten(frames), sub_yn |-> Unwritten(frames),
   my |-> 0, mx |-> 0, sy |-> 0, sx |-> 0,
   reads_main |-> <<>>, reads_sub |-> <<>>,
   writes_main |-> <<>>, writes_sub |-> <<>>,
   used |-> <<>>]

\* the statics the coefficient update reads and writes
Effect ==
  [s_bq_l |-> s_bq_l, s_bq_r |-> s_bq_r,
   s_bqs_l |-> s_bqs_l, s_bqs_r |-> s_bqs_r,
   s_wc |-> s_wc, s_q |-> s_q, s_param_changed |-> s_param_changed]

MODFX_PROCESS(mxn, sxn, frames) ==
  /\ call.op # "load"
  /\ ncalls < MaxCalls
  /\ \E fx \in {UpdateCoeffs(Effect)} :
       \E it \in {ProcessLoop(LoopEntry(fx, mxn, sxn, frames), 2 * frames)} :
         /\ ncalls' = ncalls + 1
         /\ s_param_changed' = fx.s_param_changed
         /\ s_bq_l' = it.s_bq_l
         /\ s_bq_r' = it.s_bq_r
         /\ s_bqs_l' = it.s_bqs_l
         /\ s_bqs_r' = it.s_bqs_r
         /\ call' = [NoCall EXCEPT !.op = "process", !.frames = frames]
         /\ main_xn' = mxn /\ sub_xn' = sxn
         /\ main_yn' = it.main_yn /\ sub_yn' = it.sub_yn
         /\ probe' = [recomputed |-> s_param_changed # 0,
                      assigned |-> <<fx.s_bq_l, fx.s_bq_r, fx.s_bqs_l, fx.s_bqs_r>>,
                      used |-> it.used,
                      reads_main |-> it.reads_main, reads_sub |-> it.reads_sub,
                      writes_main |-> it.writes_main, writes_sub |-> it.writes_sub]
         /\ UNCHANGED <<s_wc, s_q, pc>>

(***************************************************************************)
(* MODFX_PROCESS line by line, for a host that does not keep MODFX_PARAM   *)
(* out of a block under way                                                *)
(***************************************************************************)
\* lines 72 and 73 with the test always taken: every block recomputes
Process_enter_alwaysRecomputes(mxn, sxn, frames) ==
  /\ call.op # "load"
  /\ pc.at = "idle"
  /\ pc.blocks < MaxOverlapBlocks
  /\ pc' = [at |-> "L75", param_changed |-> 1, frames |-> frames,
            mxn |-> mxn, sxn |-> sxn, blocks |-> pc.blocks + 1]
  /\ UNCHANGED <<s_bq_l, s_bq_r, s_bqs_l, s_bqs_r, s_param_changed, s_wc, s_q,
                 call, main_xn, sub_xn, main_yn, sub_yn, probe, ncalls>>

\* lines 72 and 73: the flag is read into the local param_changed, which
\* decides between line 75 and line 82
Process_enter(mxn, sxn, frames) ==
  /\ call.op # "load"
  /\ pc.at = "idle"
  /\ pc.blocks < MaxOverlapBlocks
  /\ pc' = [at |-> IF s_param_changed # 0 THEN "L75" ELSE "L82",
            param_changed |-> s_param_changed, frames |-> frames,
            mxn |-> mxn, sxn |-> sxn, blocks |-> pc.blocks + 1]
  /\ UNCHANGED <<s_bq_l, s_bq_r, s_bqs_l, s_bqs_r, s_param_changed, s_wc, s_q,
                 call, main_xn, sub_xn, main_yn, sub_yn, probe, ncalls>>

\* line 75: s_bq_l.mCoeffs.setSOLP(fx_tanpif(s_wc), s_q)
Process_compute ==
  /\ pc.at = "L75"
  /\ s_bq_l' = [s_bq_l EXCEPT !.mCoeffs = setSOLP(fx_tanpif(s_wc), s_q)]
  /\ pc' = [pc EXCEPT !.at = "L76"]
  /\ UNCHANGED <<s_bq_r, s_bqs_l, s_bqs_r, s_param_changed, s_wc, s_q,
                 call, main_xn, sub_xn, main_yn, sub_yn, probe, ncalls>>

\* lines 76..78: the other three filters take s_bq_l's coefficients
Process_copy ==
  /\ pc.at = "L76"
  /\ s_bq_r' = [s_bq_r EXCEPT !.mCoeffs = s_bq_l.mCoeffs]
  /\ s_bqs_l' = [s_bqs_l EXCEPT !.mCoeffs = s_bq_l.mCoeffs]
  /\ s_bqs_r' = [s_bqs_r EXCEPT !.mCoeffs = s_bq_l.mCoeffs]
  /\ pc' = [pc EXCEPT !.at = "L79"]
  /\ UNCHANGED <<s_bq_l, s_param_changed, s_wc, s_q,
                 call, main_xn, sub_xn, main_yn, sub_yn, probe, ncalls>>

\* line 79: s_param_changed = 0
Process_clear ==
  /\ pc.at = "L79"
  /\ s_param_changed' = 0
  /\ pc' = [pc EXCEPT !.at = "L82"]
  /\ UNCHANGED <<s_bq_l, s_bq_r, s_bqs_l, s_bqs_r, s_wc, s_q,
                 call, main_xn, sub_xn, main_yn, sub_yn, probe, ncalls>>

\* lines 82..88: the loop, and the return to the host
Process_loop ==
  /\ pc.at = "L82"
  /\ \E it \in {ProcessLoop(LoopEntry(Effect, pc.mxn, pc.sxn, pc.frames),
                             2 * pc.frames)} :
       /\ s_bq_l' = it.s_bq_l
       /\ s_bq_r' = it.s_bq_r
       /\ s_bqs_l' = it.s_bqs_l
       /\ s_bqs_r' = it.s_bqs_r
       /\ call' = [NoCall EXCEPT !.op = "process", !.frames = pc.frames]
       /\ main_xn' = pc.mxn /\ sub_xn' = pc.sxn
       /\ main_yn' = it.main_yn /\ sub_yn' = it.sub_yn
       /\ probe' = [recomputed |-> pc.param_changed # 0,
                    assigned |-> <<s_bq_l, s_bq_r, s_bqs_l, s_bqs_r>>,
                    used |-> it.used,
                    reads_main |-> it.reads_main, reads_sub |-> it.reads_sub,
                    writes_main |-> it.writes_main, writes_sub |-> it.writes_sub]
  /\ pc' = Idle(pc.blocks)
  /\ UNCHANGED <<s_param_changed, s_wc, s_q, ncalls>>

(***************************************************************************)
(* The host: one call at a time, MODFX_INIT first                          *)
(***************************************************************************)
Init_call == MODFX_INIT

Param_call == \E index \in ParamIndices, value \in ParamValues :
                MODFX_PARAM(index, value)

Process_call == \E frames \in 0..MaxFrames :
                  \E mxn \in InputBuffers(frames), sxn \in InputBuffers(frames) :
                    MODFX_PROCESS(mxn, sxn, frames)

Next == Init_call \/ Param_call \/ Process_call

Spec == Init /\ [][Next]_vars

(***************************************************************************)
(* The host sending control values from the whole int32_t range, between   *)
(* silent blocks                                                           *)
(***************************************************************************)
ParamEdge_call == \E index \in ParamIndices, value \in EdgeValues :
                    MODFX_PARAM(index, value)

ProcessSilence_call == \E frames \in 0..MaxFrames :
                         MODFX_PROCESS(Silence(frames), Silence(frames), frames)

NextEdge == Init_call \/ ParamEdge_call \/ ProcessSilence_call

SpecEdge == Init /\ [][NextEdge]_vars

(***************************************************************************)
(* The host sending blocks of the full frame count only                    *)
(***************************************************************************)
ProcessFull_call ==
  \E mxn \in InputBuffers(MaxFrames), sxn \in InputBuffers(MaxFrames) :
    MODFX_PROCESS(mxn, sxn, MaxFrames)

NextFull == Init_call \/ Param_call \/ ProcessFull_call

SpecFull == Init /\ [][NextFull]_vars

(***************************************************************************)
(* The host that lets MODFX_PARAM run at any line of a block under way.    *)
(* ncalls counts the MODFX_INIT and MODFX_PARAM calls, pc.blocks the       *)
(* blocks.                                                                 *)
(***************************************************************************)
InitIdle_call == pc.at = "idle" /\ MODFX_INIT

ProcessEnter_call == \E frames \in 0..MaxFrames :
                       Process_enter(Silence(frames), Silence(frames), frames)

NextOverlap ==
  \/ InitIdle_call
  \/ Param_call
  \/ ProcessEnter_call
  \/ Process_compute
  \/ Process_copy
  \/ Process_clear
  \/ Process_loop

SpecOverlap == Init /\ [][NextOverlap]_vars

(***************************************************************************)
(* Properties                                                              *)
(***************************************************************************)
Recognised(index) ==
  index = k_user_modfx_param_time \/ index = k_user_modfx_param_depth

AllCoeffs(c) ==
  /\ s_bq_l.mCoeffs = c /\ s_bq_r.mCoeffs = c
  /\ s_bqs_l.mCoeffs = c /\ s_bqs_r.mCoeffs = c

DefaultCoeffs == setSOLP(fx_tanpif(DefaultWc), DefaultQ)

IsSilence(buf) == \A i \in DOMAIN buf : buf[i] = Zero

AtRest(bq) == bq.mZ1 = Zero /\ bq.mZ2 = Zero

\* the offsets 0 .. n-1 in increasing order
Offsets(n) == [i \in 1..n |-> i - 1]

\* the samples of one channel of an interleaved buffer: side 0 is left
Channel(buf, side) == [k \in 1..(Len(buf) \div 2) |-> buf[2 * k - 1 + side]]

\* a filter fed the samples xs in order: the outputs and the filter after them
RECURSIVE RunChannel(_, _)
RunChannel(bq, xs) ==
  IF xs = <<>> THEN [bq |-> bq, ys |-> <<>>]
  ELSE LET r == process_so(bq, Head(xs))
           rest == RunChannel(r.bq, Tail(xs))
       IN  [bq |-> rest.bq, ys |-> <<r.y>> \o rest.ys]

\* C1: after MODFX_INIT, at every call boundary, the four filters hold the
\* same coefficient set.
C1_FourChannelCoherence ==
  call.op # "load" => AllCoeffs(s_bq_l.mCoeffs)

\* a block has recomputed the coefficients away from the defaults
C1_Witness ==
  /\ call.op = "process" /\ probe.recomputed
  /\ s_bq_l.mCoeffs # DefaultCoeffs
  /\ AllCoeffs(s_bq_l.mCoeffs)

\* C2: when MODFX_PROCESS recomputes and assigns the coefficients, the
\* registers z1 and z2 of each of the four filters are, right after the
\* assignment, what they were right before it.
C2_SwapKeepsRegisters ==
  [][(call'.op = "process" /\ probe'.recomputed) =>
       \A i \in 1..4 :
         /\ probe'.assigned[i].mZ1 = filters[i].mZ1
         /\ probe'.assigned[i].mZ2 = filters[i].mZ2]_vars

\* a recomputation found a filter with non-zero registers and changed its
\* coefficients
C2_Witness ==
  /\ call.op = "process" /\ probe.recomputed
  /\ probe.assigned[1].mZ1 # Zero /\ probe.assigned[2].mZ2 # Zero
  /\ probe.assigned[1].mCoeffs # DefaultCoeffs

\* C3: every sample of a block, on all four channels, is processed with one
\* coefficient set, the one the filters hold when the loop starts; when the
\* block recomputes, that set is the one computed from the stored (latest)
\* cutoff and resonance, however many changes came before the block.
C3_OneCoefficientSetPerBlock ==
  call.op = "process" =>
    /\ Len(probe.used) = 4 * call.frames
    /\ \A i \in DOMAIN probe.used : probe.used[i] = probe.assigned[1].mCoeffs
    /\ AllCoeffs(probe.assigned[1].mCoeffs)
    /\ probe.recomputed =>
         probe.assigned[1].mCoeffs = setSOLP(fx_tanpif(s_wc), s_q)

\* both parameters were changed before a block of two frames or more
C3_Witness ==
  /\ call.op = "process" /\ probe.recomputed /\ call.frames >= 2
  /\ s_wc # DefaultWc /\ s_q # DefaultQ
  /\ Len(probe.used) = 4 * call.frames

\* C4: a MODFX_PARAM call, whatever its index and value, leaves the
\* coefficients and the registers of the four filters as they are.
C4_ParamIsDeferred ==
  [][call'.op = "param" => filters' = filters]_vars

\* a cutoff change arrived while the filters were running: it is stored and
\* pending, and the filters still hold the coefficients of the old cutoff
C4_Witness ==
  /\ call.op = "param" /\ call.index = k_user_modfx_param_time
  /\ s_param_changed = 1
  /\ ~AtRest(s_bq_l)
  /\ s_bq_l.mCoeffs # setSOLP(fx_tanpif(s_wc), s_q)

\* C5: a MODFX_PARAM call with a recognised index sets the dirty flag; only
\* MODFX_PROCESS and MODFX_INIT clear it; it is clear after every
\* MODFX_PROCESS call; a MODFX_PROCESS call that starts with the flag clear
\* leaves the coefficients of the four filters unchanged.
C5_DirtyFlagProtocol ==
  [][/\ (call'.op = "param" /\ Recognised(call'.index)) => s_param_changed' = 1
     /\ (s_param_changed # 0 /\ s_param_changed' = 0) =>
          call'.op \in {"process", "init"}
     /\ call'.op = "process" => s_param_changed' = 0
     /\ (call'.op = "process" /\ s_param_changed = 0) =>
          \A i \in 1..4 : filters'[i].mCoeffs = filters[i].mCoeffs]_vars

\* a resonance change was pending and a block has consumed it
C5_Witness ==
  /\ call.op = "process" /\ probe.recomputed /\ s_param_changed = 0
  /\ s_q # DefaultQ /\ s_wc = DefaultWc

\* C6: a MODFX_PARAM call with an index that is neither the cutoff nor the
\* resonance control leaves the whole effect state unchanged: the stored
\* cutoff and resonance, the dirty flag and the four filters.
C6_UnknownIndexIgnored ==
  [][(call'.op = "param" /\ ~Recognised(call'.index)) =>
       /\ filters' = filters
       /\ s_wc' = s_wc /\ s_q' = s_q
       /\ s_param_changed' = s_param_changed]_vars

\* an unrecognised index arrived with nothing pending and the filters running
C6_Witness ==
  /\ call.op = "param" /\ ~Recognised(call.index)
  /\ s_param_changed = 0
  /\ ~AtRest(s_bq_r)

\* C7: MODFX_PROCESS reads offsets 0 .. 2*frames-1 of each input buffer and
\* writes offsets 0 .. 2*frames-1 of each output buffer, each once and in
\* increasing order, and nothing else; each output sample is what the filter
\* of its channel returns for the input sample of the same offset, each
\* filter being fed the samples of its channel in order.
C7_ExactlyFramesPairsInOrder ==
  call.op = "process" =>
    LET n == 2 * call.frames
        ml == RunChannel(probe.assigned[1], Channel(main_xn, 0))
        mr == RunChannel(probe.assigned[2], Channel(main_xn, 1))
        sl == RunChannel(probe.assigned[3], Channel(sub_xn, 0))
        sr == RunChannel(probe.assigned[4], Channel(sub_xn, 1))
    IN  /\ probe.reads_main = Offsets(n) /\ probe.reads_sub = Offsets(n)
        /\ probe.writes_main = Offsets(n) /\ probe.writes_sub = Offsets(n)
        /\ Len(main_yn) = n /\ Len(sub_yn) = n
        /\ \A k \in 1..call.frames :
             /\ main_yn[2 * k - 1] = ml.ys[k] /\ main_yn[2 * k] = mr.ys[k]
             /\ sub_yn[2 * k - 1] = sl.ys[k] /\ sub_yn[2 * k] = sr.ys[k]
        /\ filters = <<ml.bq, mr.bq, sl.bq, sr.bq>>

\* a block of two frames whose main samples all differ, with a silent sub
\* buffer, left and right outputs differing
C7_Witness ==
  /\ call.op = "process" /\ call.frames = 2
  /\ main_xn = Ramp(2) /\ sub_xn = Silence(2)
  /\ main_yn[3] # main_yn[4] /\ main_yn[3] # main_yn[1]
  /\ main_yn[3] # Zero

\* C8: a filter with z1 = z2 = 0 that is fed zeros returns zero on every
\* sample and keeps z1 = z2 = 0, whatever coefficient set it holds and also
\* when the coefficients were swapped before the block.
C8_ZeroStateInvariance ==
  (/\ call.op = "process"
   /\ \A i \in 1..4 : AtRest(probe.assigned[i])
   /\ IsSilence(main_xn) /\ IsSilence(sub_xn)) =>
    /\ IsSilence(main_yn) /\ IsSilence(sub_yn)
    /\ \A i \in 1..4 : AtRest(filters[i])

\* a silent block of two frames, run at rest right after a coefficient swap
C8_Witness ==
  /\ call.op = "process" /\ call.frames = 2
  /\ probe.recomputed /\ s_bq_l.mCoeffs # DefaultCoeffs
  /\ \A i \in 1..4 : AtRest(probe.assigned[i])
  /\ IsSilence(main_xn) /\ IsSilence(sub_xn)
  /\ IsSilence(main_yn) /\ AtRest(s_bqs_r)

\* C9: MODFX_INIT, from any state, leaves the four filters at rest with the
\* coefficients of the default cutoff and resonance, those defaults stored
\* and the dirty flag clear; the block that follows it does not recompute.
C9_InitState ==
  [][/\ call'.op = "init" =>
          /\ \A i \in 1..4 :
               /\ AtRest(filters'[i])
               /\ filters'[i].mCoeffs = DefaultCoeffs
          /\ s_wc' = DefaultWc /\ s_q' = DefaultQ
          /\ s_param_changed' = 0
     /\ (call.op = "init" /\ call'.op = "process") =>
          /\ ~probe'.recomputed
          /\ \A i \in 1..4 : probe'.assigned[i].mCoeffs = DefaultCoeffs]_vars

\* an initialization that was not the first call
C9_Witness ==
  /\ call.op = "init" /\ ncalls >= 3
  /\ s_param_changed = 0 /\ AllCoeffs(DefaultCoeffs)

\* C10: the resonance MODFX_INIT stores is the one the depth knob maps value
\* 0 to, 2^0 / sqrt(2), so MODFX_PARAM(depth, 0) right after MODFX_INIT
\* leaves s_q as it is.
C10_DefaultQIsKnobZero ==
  [][(call.op = "init" /\ call'.op = "param"
      /\ call'.index = k_user_modfx_param_depth /\ call'.value = 0) =>
       s_q' = s_q]_vars

\* C11: the cutoff and the resonance that MODFX_INIT and MODFX_PROCESS pass
\* to the coefficient computation satisfy 0 < cutoff < 0.5 and q > 0,
\* whatever indices and 32-bit values the control updates carried.
C11_CoefficientInputsValid ==
  (call.op = "init" \/ (call.op = "process" /\ probe.recomputed)) =>
    /\ FLess(Zero, s_wc) /\ FLess(s_wc, FLit(1, 2))
    /\ FLess(Zero, s_q)

\* a block recomputed from the cutoff of the most negative control value and
\* the resonance of the largest one
C11_Witness ==
  /\ call.op = "process" /\ probe.recomputed
  /\ s_wc = CutoffOf(q31_to_f32(-2147483647 - 1))
  /\ s_q = ResonanceOf(q31_to_f32(2147483647))
  /\ FLess(s_wc, FLit(1, 1000)) /\ FLess(FInt(11), s_q)

\* the coefficient computation applied to the stored cutoff and resonance
StoredCoeffs == setSOLP(fx_tanpif(s_wc), s_q)

\* C12: with every call run to completion before the next, no control change
\* is lost: in every MODFX_PROCESS call the four filters hold, from before the
\* first sample and through every pass of the loop, the coefficients computed
\* from the cutoff and resonance stored at that time.
C12_NoControlChangeLost ==
  call.op = "process" =>
    \A c \in {StoredCoeffs} :
      /\ \A i \in 1..4 : probe.assigned[i].mCoeffs = c
      /\ \A k \in DOMAIN probe.used : probe.used[k] = c

\* a block of at least one frame that follows a time update and a depth
\* update, recomputed and filtered with coefficients that are not the defaults
C12_Witness ==
  /\ call.op = "process" /\ call.frames > 0
  /\ probe.recomputed
  /\ s_wc # DefaultWc /\ s_q # DefaultQ
  /\ probe.used[1] = StoredCoeffs
  /\ probe.used[1] # DefaultCoeffs

\* C13: at every call boundary after MODFX_INIT, when the flag is clear the
\* four filters hold the coefficient computation applied to the stored
\* cutoff and resonance.
C13_ClearFlagMeansCurrent ==
  (call.op # "load" /\ s_param_changed = 0) => AllCoeffs(StoredCoeffs)

\* the boundary after the block that applied a changed cutoff
C13_Witness ==
  /\ call.op = "process"
  /\ s_param_changed = 0
  /\ s_wc # DefaultWc
  /\ AllCoeffs(StoredCoeffs)
  /\ ~AllCoeffs(DefaultCoeffs)

\* the coefficients the four filters hold
HeldCoeffs ==
  <<s_bq_l.mCoeffs, s_bq_r.mCoeffs, s_bqs_l.mCoeffs, s_bqs_r.mCoeffs>>

\* after MODFX_INIT the flag is clear and yet the held coefficients cs are
\* not all those of the stored cutoff wc and resonance q
LostWith(op, flag, wc, q, cs) ==
  /\ op # "load"
  /\ flag = 0
  /\ \E i \in 1..4 : cs[i] # setSOLP(fx_tanpif(wc), q)

Lost == LostWith(call.op, s_param_changed, s_wc, s_q, HeldCoeffs)

\* a step that is a MODFX_PARAM call with a recognised index
RecognisedUpdate ==
  /\ ncalls' = ncalls + 1
  /\ call'.op = "param"
  /\ Recognised(call'.index)

\* a step that is a MODFX_INIT call
Reinitialised == ncalls' = ncalls + 1 /\ call'.op = "init"

\* C14: nothing in the code keeps MODFX_PARAM out of a block under way.  When
\* it runs between the recomputation of line 75 and the clearing of line 79,
\* the flag ends up clear over coefficients that are not those of the stored
\* values, and from then on no line of any later block applies the change:
\* only a further recognised control update (or a new MODFX_INIT) ends it.
C14_LostChangeStaysLost ==
  [][\A wc \in {s_wc'}, q \in {s_q'}, cs \in {HeldCoeffs'} :
       (Lost /\ ~RecognisedUpdate /\ ~Reinitialised)
         => LostWith(call'.op, s_param_changed', wc, q, cs)]_vars

\* the second block has returned, it did not recompute, and the change that
\* arrived inside the first block is still not in the filters
C14_Witness ==
  /\ pc.at = "idle" /\ pc.blocks = 2
  /\ call.op = "process" /\ ~probe.recomputed
  /\ Lost

\* the four channels: main left, main right, sub left, sub right
Channels == 1..4

\* the side of a channel in its interleaved buffer: 0 is left
SideOf(ch) == (ch - 1) % 2

\* a filter with other delay registers, the coefficients kept
Disturbed(bq) ==
  [bq EXCEPT !.mZ1 = FAdd(@, FInt(1)), !.mZ2 = FSub(@, FInt(1))]

\* a buffer with other samples, those of the given side kept (side 2: none)
DisturbedBuf(buf, keep) ==
  [i \in DOMAIN buf |->
     IF (i - 1) % 2 = keep THEN buf[i] ELSE FAdd(buf[i], FInt(1))]

\* the loop of the last MODFX_PROCESS call run again from the same control
\* state, with channel ch's filter and samples as they were and the other
\* three channels' delay registers and samples different
OtherRun(ch) ==
  LET fx == [s_bq_l |-> IF ch = 1 THEN probe.assigned[1]
                        ELSE Disturbed(probe.assigned[1]),
             s_bq_r |-> IF ch = 2 THEN probe.assigned[2]
                        ELSE Disturbed(probe.assigned[2]),
             s_bqs_l |-> IF ch = 3 THEN probe.assigned[3]
                         ELSE Disturbed(probe.assigned[3]),
             s_bqs_r |-> IF ch = 4 THEN probe.assigned[4]
                         ELSE Disturbed(probe.assigned[4])]
      mxn == DisturbedBuf(main_xn, IF ch \in {1, 2} THEN SideOf(ch) ELSE 2)
      sxn == DisturbedBuf(sub_xn, IF ch \in {3, 4} THEN SideOf(ch) ELSE 2)
  IN  ProcessLoop(LoopEntry(fx, mxn, sxn, call.frames), 2 * call.frames)

\* channel ch's filter and output samples at the end of a run of the loop
ChannelView(ch, l, r, sl, sr, myn, syn) ==
  [bq |-> <<l, r, sl, sr>>[ch],
   ys |-> Channel(IF ch \in {1, 2} THEN myn ELSE syn, SideOf(ch))]

\* C15: the delay registers are not shared.  Two runs of a block that agree
\* on the control state and on one channel's filter and input samples, and
\* differ in the other three channels' registers and samples, give that
\* channel the same output samples and leave its filter with the same z1 and
\* z2: no channel's processing touches another channel's registers.
C15_ChannelIsolation ==
  call.op = "process" =>
    \A ch \in Channels :
      \A o \in {OtherRun(ch)} :
        ChannelView(ch, o.s_bq_l, o.s_bq_r, o.s_bqs_l, o.s_bqs_r,
                    o.main_yn, o.sub_yn)
          = ChannelView(ch, s_bq_l, s_bq_r, s_bqs_l, s_bqs_r, main_yn, sub_yn)

\* a block of ramp samples entered with the main left registers in motion,
\* whose other run ends with another main right filter and other main and
\* sub outputs
C15_Witness ==
  /\ call.op = "process" /\ call.frames = MaxFrames
  /\ main_xn = Ramp(call.frames)
  /\ ~AtRest(probe.assigned[1])
  /\ \A o \in {OtherRun(1)} :
       /\ o.s_bq_r # s_bq_r
       /\ o.main_yn # main_yn
       /\ o.sub_yn # sub_yn
       /\ o.s_bq_l = s_bq_l

====
